---- MODULE Spec2Model ----
(***************************************************************************)
(* Model of the document recovery and conversion pipeline of               *)
(* interactive_download.py: the repair engine (PPTXRepair), the conversion *)
(* engine (OfficeConverter) and the batch orchestrator                     *)
(* (convert_office_to_pdf), run over a small file system.                  *)
(*                                                                         *)
(* A path is a record [dir, pre, stem, ext]: dir 0 is the category         *)
(* directory that holds the downloaded sources, dir n > 0 is the n-th      *)
(* directory made by tempfile.mkdtemp; pre is -1 for a plain name          *)
(* "<stem>.<ext>" and i >= 0 for the name "repaired_<i>_<stem>.<ext>".     *)
(* The file system fs maps every existing path to a token for its bytes:   *)
(*   "zip"     a readable ZIP container (a .pptx/.docx, or a repaired copy)*)
(*   "junk"    bytes that are not a valid ZIP                              *)
(*   "pdf"     a non-empty PDF                                             *)
(*   "partial" a non-empty, half-written archive                           *)
(*   "empty"   a zero-byte file                                            *)
(* A label (the str of the Tuple[bool, str] results) is a sequence of      *)
(* words: <<"LibreOffice">>, <<"LibreOffice", "(repaired)">>, <<"none">>.  *)
(***************************************************************************)
EXTENDS Integers, Sequences, FiniteSets, TLC

\* ---------------------------------------------------------------- bounds
MaxFiles == 2

\* ------------------------------------------------------------- constants
\* the base names "<sequence>.<label>" of the downloaded files
Stems == {1, 2}
PresentationExts == {"pptx", "ppt"}
WordExts == {"docx", "doc"}
\* the order in which convert_office_to_pdf globs the extensions
ExtPatterns == <<"docx", "pptx", "doc", "ppt">>

NoPath == [dir |-> -1, pre |-> -1, stem |-> 0, ext |-> "none"]

VARIABLES
    COMTYPES_AVAILABLE,  \* import comtypes.client succeeded
    ASPOSE_AVAILABLE,    \* import aspose.slides succeeded
    PPTX_AVAILABLE,      \* import pptx succeeded
    soffice,             \* an soffice.exe exists at one of possible_paths
    fs,                  \* the file system: existing path -> bytes token
    dirs,                \* existing directories made by tempfile
    next_tmp,            \* next fresh name tempfile hands out
    office_files,        \* the batch's discovered files, in discovery order
    source_bytes,        \* fs as it was when the batch started
    idx,                 \* enumerate(office_files, 1) position
    pc,                  \* where the batch is
    m,                   \* position in the methods list
    i,                   \* position in the strategies list
    temp_dir,            \* attempt_repair's temp_dir
    repaired_path,       \* convert_pptx_to_pdf's repaired_path (NoPath: None)
    result,              \* (success, method) as returned by the converter
    stats,               \* stats dict of the batch
    converted_files,     \* list of produced PDFs
    failed_files,        \* list of failed source names
    log,                 \* the calls made for the current file, in order
    tmp_before,          \* dirs as it was when attempt_repair was entered
    ledger,              \* per finished file: what its conversion came to
    running,             \* host: the backend processes running
    last_call,           \* host: what the last backend call did to its process
    globbed,             \* natural sort: resource_dir.glob("*.pdf"), in the order met
    pdfs_in_dir,         \* natural sort: the sorted listing
    sort_state,          \* natural sort: "pending", "done" or "ValueError"
    file_path,           \* sniffer: the bytes of the downloaded file
    detected,            \* sniffer: how the last call went and what it returned
    earlier,             \* sniffer: the file and the call before it grew
    tree,                \* merge: what each PDF path under the unit holds
    merged,              \* merge: the merged file of each resource type
    res_idx,             \* merge: the place of the loop in resource_types
    rerun,               \* merge: this is a later run over the same unit
    report,              \* merge: what this run did with each group so far
    first_report,        \* merge: what the run before did, the tree being as it was
    link,                \* download: the link the loop's turn is about
    fetched,             \* download: how many links have been fetched so far
    dl_pc,               \* download: where the run stands
    disk,                \* download: the bytes under each name of the resource dir
    saved_path,          \* download: output_path, the name the turn's file has
    actual_ext,          \* download: what detect_file_type returned for it
    downloaded_files,    \* download: self.downloaded_files
    unit_file_counter,   \* download: the number the next file gets
    sniff_log,           \* download: per sniffed file on disk, its claimed and detected kind
    dispatched           \* download: the converter each office file is handed to

vars == <<COMTYPES_AVAILABLE, ASPOSE_AVAILABLE, PPTX_AVAILABLE, soffice, fs,
          dirs, next_tmp, office_files, source_bytes, idx, pc, m, i, temp_dir,
          repaired_path, result, stats, converted_files, failed_files, log,
          tmp_before, ledger, running, last_call, globbed, pdfs_in_dir, sort_state,
          file_path, detected, earlier, tree, merged, res_idx, rerun, report,
          first_report, link, fetched, dl_pc, disk, saved_path, actual_ext,
          downloaded_files, unit_file_counter, sniff_log, dispatched>>

conversion_vars == <<COMTYPES_AVAILABLE, ASPOSE_AVAILABLE, PPTX_AVAILABLE, soffice, fs, dirs,
                     next_tmp, office_files, source_bytes, idx, pc, m, i, temp_dir,
                     repaired_path, result, stats, converted_files, failed_files, log,
                     tmp_before, ledger>>
process_vars == <<running, last_call>>
order_vars == <<globbed, pdfs_in_dir, sort_state>>
sniffer_vars == <<file_path, detected, earlier>>
merge_vars == <<tree, merged, res_idx, rerun, report, first_report>>
download_vars == <<link, fetched, dl_pc, disk, saved_path, actual_ext, downloaded_files,
                   unit_file_counter, sniff_log, dispatched>>
\* the variables of the other components, which the batch leaves alone
beside_conversion == <<process_vars, order_vars, sniffer_vars, merge_vars, download_vars>>

host == <<COMTYPES_AVAILABLE, ASPOSE_AVAILABLE, PPTX_AVAILABLE, soffice>>

\* ------------------------------------------------------------ file system
Exists(f, p) == p \in DOMAIN f
Size(f, p) == IF f[p] = "empty" THEN 0 ELSE 1
\* output_path.exists() and output_path.stat().st_size > 0
NonEmptyFile(f, p) == Exists(f, p) /\ Size(f, p) > 0
WriteFile(f, p, bytes) == [q \in DOMAIN f \cup {p} |-> IF q = p THEN bytes ELSE f[q]]
Unlink(f, p) == [q \in DOMAIN f \ {p} |-> f[q]]
\* Path.rmdir(): removes an empty directory, raises OSError on a non-empty one
RmdirRaises(f, d) == \E p \in DOMAIN f : p.dir = d
Rmdir(ds, f, d) == IF RmdirRaises(f, d) THEN ds ELSE ds \ {d}
\* shutil.rmtree(d, ignore_errors=True)
RmtreeFiles(f, d) == [q \in {p \in DOMAIN f : p.dir # d} |-> f[q]]
\* faulty variant: the directory is left behind
RmtreeDirs_Skipped(ds, d) == ds
RmtreeDirs(ds, d) == ds \ {d}

\* office_file.with_suffix(".pdf")
WithSuffixPdf(p) == [p EXCEPT !.ext = "pdf"]
\* temp_dir / f"repaired_{i}_{input_path.name}"
RepairedName(d, k, input) == [dir |-> d, pre |-> k, stem |-> input.stem, ext |-> input.ext]
\* soffice --convert-to pdf --outdir <dir> <input> writes <dir>/<input's stem>.pdf
SofficeTarget(input, outdir) == [input EXCEPT !.dir = outdir, !.ext = "pdf"]

\* ------------------------------------------------- what the engines can do
(* Each backend and each repair strategy drives an engine outside the       *)
(* program (an Office application, a library, the soffice process).  What   *)
(* the engine does with one input is an input of the model:                 *)
(*   "converted"   the engine wrote its PDF and every call returned         *)
(*   "raises"      a call raised before anything was written                *)
(*   "quit_raises" the PDF was saved, then Quit() raised in the finally     *)
(*   "silent"      every call returned but the file written is zero bytes   *)
(*   "failed"      soffice exited without writing a PDF                     *)
(*   "timeout"     subprocess.run raised TimeoutExpired after 120 seconds   *)
(*   "ok"          the strategy wrote its archive                           *)
(*   "invalid"     the archive was written but Presentation() rejects it    *)
(* and the model records, besides these, "unavailable" (import failed or    *)
(* soffice not found) and "badzip" (zipfile/python-pptx cannot open it).    *)
ComOutcomes == {"converted", "raises", "quit_raises", "silent"}
AsposeOutcomes == {"converted", "raises", "silent"}
SofficeOutcomes == {"converted", "failed", "timeout"}
PptxOutcomes == {"ok", "raises", "silent"}
RezipOutcomes == {"ok", "raises"}
RelsOutcomes == {"ok", "raises", "invalid"}

Ret(r, f) == [ret |-> r, fs |-> f]

\* -------------------------------------------------------------- PPTXRepair
repair_with_pptx(input, output, o, f) ==
    IF ~PPTX_AVAILABLE THEN Ret(FALSE, f)
    ELSE IF f[input] # "zip" \/ o = "raises" THEN Ret(FALSE, f)
    ELSE IF o = "silent" THEN Ret(TRUE, WriteFile(f, output, "empty"))
    ELSE Ret(TRUE, WriteFile(f, output, "zip"))

\* The TemporaryDirectory of the two archive strategies is made and removed
\* inside the call, on every path out of the with block.
ScratchDuring(ds, t) == ds \cup {t}
ScratchAfter(ds, t) == ScratchDuring(ds, t) \ {t}

repair_by_rezip(input, output, o, f) ==
    IF f[input] # "zip" THEN Ret(FALSE, f)
    ELSE IF o = "raises" THEN Ret(FALSE, WriteFile(f, output, "partial"))
    ELSE Ret(TRUE, WriteFile(f, output, "zip"))

repair_xml_relationships(input, output, o, f) ==
    IF f[input] # "zip" THEN Ret(FALSE, f)
    ELSE IF o = "raises" THEN Ret(FALSE, WriteFile(f, output, "partial"))
    ELSE IF PPTX_AVAILABLE /\ o = "invalid" THEN Ret(FALSE, WriteFile(f, output, "zip"))
    ELSE Ret(TRUE, WriteFile(f, output, "zip"))

strategies == <<"repair_with_pptx", "repair_by_rezip", "repair_xml_relationships">>

StrategyOutcomes(name) ==
    IF name = "repair_with_pptx" THEN PptxOutcomes
    ELSE IF name = "repair_by_rezip" THEN RezipOutcomes
    ELSE RelsOutcomes

RunStrategy(name, input, output, o, f) ==
    IF name = "repair_with_pptx" THEN repair_with_pptx(input, output, o, f)
    ELSE IF name = "repair_by_rezip" THEN repair_by_rezip(input, output, o, f)
    ELSE repair_xml_relationships(input, output, o, f)

\* what the strategy's engine did, as the log records it
StrategyEngine(name, input, o, f) ==
    IF name = "repair_with_pptx" /\ ~PPTX_AVAILABLE THEN "unavailable"
    ELSE IF f[input] # "zip" THEN "badzip"
    ELSE IF name = "repair_xml_relationships" /\ o = "invalid" /\ ~PPTX_AVAILABLE THEN "ok"
    ELSE o

\* --------------------------------------------------------- OfficeConverter
convert_with_powerpoint(input, output, o, f) ==
    IF ~COMTYPES_AVAILABLE THEN Ret(FALSE, f)
    ELSE IF o = "raises" THEN Ret(FALSE, f)
    ELSE IF o = "quit_raises" THEN Ret(FALSE, WriteFile(f, output, "pdf"))
    ELSE IF o = "silent" THEN Ret(TRUE, WriteFile(f, output, "empty"))
    ELSE Ret(TRUE, WriteFile(f, output, "pdf"))

convert_with_word(input, output, o, f) ==
    IF ~COMTYPES_AVAILABLE THEN Ret(FALSE, f)
    ELSE IF o = "raises" THEN Ret(FALSE, f)
    ELSE IF o = "quit_raises" THEN Ret(FALSE, WriteFile(f, output, "pdf"))
    ELSE IF o = "silent" THEN Ret(TRUE, WriteFile(f, output, "empty"))
    ELSE Ret(TRUE, WriteFile(f, output, "pdf"))

convert_with_aspose_slides(input, output, o, f) ==
    IF ~ASPOSE_AVAILABLE THEN Ret(FALSE, f)
    ELSE IF o = "raises" THEN Ret(FALSE, f)
    ELSE IF o = "silent" THEN Ret(TRUE, WriteFile(f, output, "empty"))
    ELSE Ret(TRUE, WriteFile(f, output, "pdf"))

convert_with_libreoffice(input, output, o, f) ==
    IF ~soffice THEN Ret(FALSE, f)
    ELSE LET unlinked == IF Exists(f, output) THEN Unlink(f, output) ELSE f
             ran == IF o = "converted"
                    THEN WriteFile(unlinked, SofficeTarget(input, output.dir), "pdf")
                    ELSE unlinked
         IN  IF o = "timeout" THEN Ret(FALSE, ran)
             ELSE Ret(NonEmptyFile(ran, output), ran)

\* ------------------------------------------------ host process management
\* the application a backend drives ("none": a library inside the program)
BackendProcess(name) ==
    IF name = "PowerPoint COM" THEN "powerpoint"
    ELSE IF name = "Word COM" THEN "word"
    ELSE IF name = "LibreOffice" THEN "soffice"
    ELSE "none"

\* faulty variant: the taskkill after the run is skipped when run() raises
HostSteps_NoKillOnTimeout(name, available, o) ==
    IF ~available \/ BackendProcess(name) = "none" THEN <<>>
    ELSE IF name = "LibreOffice"
    THEN (IF o = "timeout" THEN <<"kill", "start">> ELSE <<"kill", "start", "kill">>)
    ELSE IF o = "quit_raises" THEN <<"start">>
    ELSE <<"start", "quit">>
\* What one call does to its application, in order: "kill" is the taskkill of
\* convert_with_libreoffice (before the run, and in its finally), "start" is
\* subprocess.run or CreateObject, "quit" is a Quit() that returned.  A COM
\* call that raises does so in Open or SaveAs, inside the inner try; with
\* "quit_raises" the Quit() of the finally raised and ended nothing.
HostSteps(name, available, o) ==
    IF ~available \/ BackendProcess(name) = "none" THEN <<>>
    ELSE IF name = "LibreOffice" THEN <<"kill", "start", "kill">>
    ELSE IF o = "quit_raises" THEN <<"start">>
    ELSE <<"start", "quit">>

RECURSIVE ApplySteps(_, _, _)
\* the running processes after the steps: kill and quit end the
\* application, start leaves an instance of it running
ApplySteps(steps, proc, ps) ==
    IF steps = <<>> THEN ps
    ELSE ApplySteps(Tail(steps), proc,
                    IF Head(steps) = "start" THEN ps \cup {proc} ELSE ps \ {proc})

Processes == {"powerpoint", "word", "soffice"}
NoCall == [fn |-> "none", eng |-> "none", steps |-> <<>>, stale |-> FALSE, left |-> FALSE]
ProcessIdle ==
    /\ running = {}
    /\ last_call = NoCall

\* faulty variant: the presentation cascade without its last backend
PptxMethods_NoLibreOffice == <<"PowerPoint COM", "Aspose.Slides">>
PptxMethods == <<"PowerPoint COM", "Aspose.Slides", "LibreOffice">>
DocxMethods == <<"Word COM", "LibreOffice">>

MethodOutcomes(name) ==
    IF name \in {"PowerPoint COM", "Word COM"} THEN ComOutcomes
    ELSE IF name = "Aspose.Slides" THEN AsposeOutcomes
    ELSE SofficeOutcomes

RunMethod(name, input, output, o, f) ==
    IF name = "PowerPoint COM" THEN convert_with_powerpoint(input, output, o, f)
    ELSE IF name = "Word COM" THEN convert_with_word(input, output, o, f)
    ELSE IF name = "Aspose.Slides" THEN convert_with_aspose_slides(input, output, o, f)
    ELSE convert_with_libreoffice(input, output, o, f)

MethodAvailable(name) ==
    IF name \in {"PowerPoint COM", "Word COM"} THEN COMTYPES_AVAILABLE
    ELSE IF name = "Aspose.Slides" THEN ASPOSE_AVAILABLE
    ELSE soffice

\* what the backend's engine did, as the log records it
MethodEngine(name, o) == IF MethodAvailable(name) THEN o ELSE "unavailable"

\* ------------------------------------------------------- natural_sort_key
\* A file name is a sequence of characters closed by the suffix ".pdf", which
\* is kept as one character.  "sup2" is the superscript two, one of the
\* characters str.isdigit() accepts and the pattern \d does not.
MaxLen == 3
StemChars == {"0", "1", "2", "A", "a", "sup2"}
Chars == StemChars \cup {".pdf"}
Decimal == {"0", "1", "2"}
\* ord() of each character; of the suffix, that of its dot
CodePoint == [c \in Chars |->
                 IF c = ".pdf" THEN 46 ELSE IF c = "0" THEN 48 ELSE IF c = "1" THEN 49
                 ELSE IF c = "2" THEN 50 ELSE IF c = "A" THEN 65
                 ELSE IF c = "a" THEN 97 ELSE 178]
DigitValue == [c \in Decimal |-> IF c = "0" THEN 0 ELSE IF c = "1" THEN 1 ELSE 2]
\* the names glob("*.pdf") can yield
FileNames == {stem \o <<".pdf">> : stem \in UNION {[1..n -> StemChars] : n \in 1..MaxLen}}

RECURSIVE TakeRun(_, _)
\* the longest prefix of s whose characters are all in (or all out of) \d
TakeRun(s, digits) ==
    IF s = <<>> \/ ((Head(s) \in Decimal) # digits) THEN <<>>
    ELSE <<Head(s)>> \o TakeRun(Tail(s), digits)
DropRun(s, digits) == SubSeq(s, Len(TakeRun(s, digits)) + 1, Len(s))

RECURSIVE re_split(_)
\* re.split(r'(\d+)', name): text, digits, text, ..., text; the first and
\* the last text may be empty
re_split(name) ==
    LET text == TakeRun(name, FALSE)
        after == DropRun(name, FALSE)
    IN  IF after = <<>> THEN <<text>>
        ELSE <<text, TakeRun(after, TRUE)>> \o re_split(DropRun(after, TRUE))

\* str.isdigit(): not empty, and every character is a digit character
isdigit(part) == part # <<>> /\ \A k \in DOMAIN part : part[k] \in Decimal \cup {"sup2"}
\* int(part) raises ValueError unless every character is a decimal digit
IntRaises(part) == \E k \in DOMAIN part : part[k] \notin Decimal
RECURSIVE int(_)
int(part) == IF part = <<>> THEN 0
             ELSE 10 * int(SubSeq(part, 1, Len(part) - 1)) + DigitValue[part[Len(part)]]
lower(part) == [k \in DOMAIN part |-> IF part[k] = "A" THEN "a" ELSE part[k]]

KeyRaises(name) ==
    \E k \in DOMAIN re_split(name) : isdigit(re_split(name)[k]) /\ IntRaises(re_split(name)[k])
\* faulty variant: the digit runs are kept as text
natural_sort_key_Text(name) ==
    [k \in DOMAIN re_split(name) |-> [str |-> lower(re_split(name)[k])]]
\* [int(part) if part.isdigit() else part.lower() for part in parts]
natural_sort_key(name) ==
    [k \in DOMAIN re_split(name) |->
        IF isdigit(re_split(name)[k]) THEN [int |-> int(re_split(name)[k])]
        ELSE [str |-> lower(re_split(name)[k])]]

RECURSIVE StrLess(_, _)
\* Python's < on str: by code point, a proper prefix is smaller
StrLess(x, y) ==
    IF y = <<>> THEN FALSE
    ELSE IF x = <<>> THEN TRUE
    ELSE IF Head(x) # Head(y) THEN CodePoint[Head(x)] < CodePoint[Head(y)]
    ELSE StrLess(Tail(x), Tail(y))
IsInt(e) == DOMAIN e = {"int"}
\* int < int or str < str (the parts of two keys agree in type position by
\* position: text at the odd places, numbers at the even ones)
PartLess(x, y) == IF IsInt(x) THEN x.int < y.int ELSE StrLess(x.str, y.str)
RECURSIVE KeyLess(_, _)
\* Python's < on lists
KeyLess(a, b) ==
    IF b = <<>> THEN FALSE
    ELSE IF a = <<>> THEN TRUE
    ELSE IF Head(a) # Head(b) THEN PartLess(Head(a), Head(b))
    ELSE KeyLess(Tail(a), Tail(b))

RECURSIVE Insert(_, _)
\* puts x behind every element of the sorted s that is not greater than it
Insert(s, x) ==
    IF s = <<>> THEN <<x>>
    ELSE IF KeyLess(natural_sort_key(x), natural_sort_key(Head(s))) THEN <<x>> \o s
    ELSE <<Head(s)>> \o Insert(Tail(s), x)
RECURSIVE Sorted(_)
\* sorted(names, key=natural_sort_key), which is stable
Sorted(names) ==
    IF names = <<>> THEN <<>>
    ELSE Insert(Sorted(SubSeq(names, 1, Len(names) - 1)), names[Len(names)])

OrderIdle ==
    /\ globbed = <<>>
    /\ pdfs_in_dir = <<>>
    /\ sort_state = "done"

\* ------------------------------------------------------- detect_file_type
\* A file is its first four bytes followed by chunks of bytes: the path
\* markers and keywords the sniffer looks for, and runs of other bytes of
\* two lengths, the longer of which leaves fewer bytes of the window free
\* than any marker needs.
MaxChunks == 3
MagicLen == 4
ContentWindow == 512
Magics == {"PK\\x03\\x04", "%PDF", "\\xd0\\xcf\\x11\\xe0", "other"}
Chunks == {"ppt/", "word/", "xl/", "SlideShow", "document", "workbook", "pad100", "pad505"}
ChunkBytes == [c \in Chunks |->
                  IF c = "ppt/" THEN 4 ELSE IF c = "word/" THEN 5 ELSE IF c = "xl/" THEN 3
                  ELSE IF c = "SlideShow" THEN 9 ELSE IF c \in {"document", "workbook"} THEN 8
                  ELSE IF c = "pad100" THEN 100 ELSE 505]
Files == [magic : Magics, body : UNION {[1..n -> Chunks] : n \in 0..MaxChunks}]
NoFile == [magic |-> "other", body |-> <<"none">>]

RECURSIVE ChunkStart(_, _)
\* the offset of the first byte of chunk k
ChunkStart(body, k) ==
    IF k = 1 THEN MagicLen ELSE ChunkStart(body, k - 1) + ChunkBytes[body[k - 1]]
\* faulty variant: the whole file is searched
InContent_WholeFile(body, k) == TRUE
\* content = f.read(512): chunk k lies in content with all its bytes
InContent(body, k) == ChunkStart(body, k) + ChunkBytes[body[k]] <= ContentWindow
\* 'marker' in content_str
Found(body, marker) == \E k \in DOMAIN body : body[k] = marker /\ InContent(body, k)
\* faulty variant: the keyword is looked for in content_str as it is
FoundLower_CaseSensitive(body, keyword) ==
    \E k \in DOMAIN body : InContent(body, k) /\ body[k] = keyword
\* 'keyword' in content_str.lower()
FoundLower(body, keyword) ==
    \E k \in DOMAIN body :
        /\ InContent(body, k)
        /\ \/ body[k] = keyword
           \/ keyword = "slideshow" /\ body[k] = "SlideShow"
\* the bytes f.read(512) yields: the magic, and of each chunk that begins
\* inside the window the bytes that are inside it
Content(f) ==
    [magic |-> f.magic,
     rest |-> [k \in {j \in DOMAIN f.body : ChunkStart(f.body, j) < ContentWindow} |->
                 <<f.body[k], IF InContent(f.body, k) THEN ChunkBytes[f.body[k]]
                              ELSE ContentWindow - ChunkStart(f.body, k)>>]]

\* how a call can go: both opens succeed, or open/read raises at the first
\* or at the second "with open"
ReadOutcomes == {"read", "first_open_raises", "second_open_raises"}
\* faulty variant: word/ is looked for before ppt/
detect_file_type_WordFirst(f, o) ==
    IF o = "first_open_raises" THEN "None"
    ELSE IF f.magic = "PK\\x03\\x04"
    THEN IF o = "second_open_raises" THEN "None"
         ELSE IF Found(f.body, "word/") \/ FoundLower(f.body, "document") THEN ".docx"
         ELSE IF Found(f.body, "ppt/") \/ FoundLower(f.body, "slideshow") THEN ".pptx"
         ELSE IF Found(f.body, "xl/") \/ FoundLower(f.body, "workbook") THEN ".xlsx"
         ELSE ".pptx"
    ELSE IF f.magic = "%PDF" THEN ".pdf"
    ELSE IF f.magic = "\\xd0\\xcf\\x11\\xe0" THEN ".ppt"
    ELSE "None"
\* detect_file_type(file_path)
detect_file_type(f, o) ==
    IF o = "first_open_raises" THEN "None"
    ELSE IF f.magic = "PK\\x03\\x04"
    THEN IF o = "second_open_raises" THEN "None"
         ELSE IF Found(f.body, "ppt/") \/ FoundLower(f.body, "slideshow") THEN ".pptx"
         ELSE IF Found(f.body, "word/") \/ FoundLower(f.body, "document") THEN ".docx"
         ELSE IF Found(f.body, "xl/") \/ FoundLower(f.body, "workbook") THEN ".xlsx"
         ELSE ".pptx"
    ELSE IF f.magic = "%PDF" THEN ".pdf"
    ELSE IF f.magic = "\\xd0\\xcf\\x11\\xe0" THEN ".ppt"
    ELSE "None"

Pending == [how |-> "pending", ret |-> "None"]
SnifferIdle ==
    /\ file_path = NoFile
    /\ detected = [how |-> "idle", ret |-> "None"]
    /\ earlier = [file |-> NoFile, call |-> Pending]

\* ----------------------------------------------------- merge_pdfs_by_type
\* One unit directory.  Its class directories are numbered in the order
\* sorted(unit_dir.iterdir()) meets them; under each, every resource
\* directory can hold the PDFs of a small pool of names; tree maps each PDF
\* on disk to "pdf", a readable PDF of PagesPerPdf pages, or to "corrupt", a
\* file PdfWriter.append raises on.
MaxMembers == 4
PagesPerPdf == 2
ClassDirs == {1, 2}
RESOURCE_TYPES == [res_id \in {"2", "3"} |-> IF res_id = "2" THEN "Slides" ELSE "Notes"]
resource_types == <<"2", "3">>
PdfNames == {<<"2", "A", ".pdf">>, <<"1", "0", "A", ".pdf">>}
PdfPaths == [class : ClassDirs, res : {"Slides", "Notes"}, name : PdfNames]
NoMerged == [exists |-> FALSE, pages |-> <<>>]

\* unit_dir.iterdir(), sorted: the class directories "01_..", "02_..", then
\* the merged files "Unit_.._Merged.pdf" written there
UnitEntries(mg) ==
    [k \in 1..Cardinality(ClassDirs) |-> [is_dir |-> TRUE, class |-> k, res |-> "none"]]
    \o SelectSeq([k \in DOMAIN resource_types |->
                    [is_dir |-> FALSE, class |-> 0, res |-> RESOURCE_TYPES[resource_types[k]]]],
                 LAMBDA e : mg[e.res].exists)

RECURSIVE Listing(_)
\* the members of a set of names as glob yields them, in some order
Listing(names) ==
    IF names = {} THEN <<>>
    ELSE LET n == CHOOSE x \in names : TRUE IN <<n>> \o Listing(names \ {n})
\* sorted(resource_dir.glob("*.pdf"), key=natural_sort_key), as paths
PdfsInDir(t, class, res) ==
    LET names == {n \in PdfNames : [class |-> class, res |-> res, name |-> n] \in DOMAIN t}
        pdfs == Sorted(Listing(names))
    IN  [k \in DOMAIN pdfs |-> [class |-> class, res |-> res, name |-> pdfs[k]]]
\* the name a merged file of the unit has as a member
MergedPath(res) == [class |-> 0, res |-> res, name |-> <<"Merged", ".pdf">>]
\* faulty variant: a merged file of the category met in the unit directory is
\* taken as a member too
Members_MergedToo(t, e, res) ==
    IF e.is_dir THEN PdfsInDir(t, e.class, res)
    ELSE IF e.res = res THEN <<MergedPath(res)>> ELSE <<>>
\* if class_dir.is_dir(): what one entry of the unit directory adds to pdf_files
Members(t, e, res) == IF e.is_dir THEN PdfsInDir(t, e.class, res) ELSE <<>>
RECURSIVE Collect(_, _, _)
\* the loop "for class_dir in sorted(unit_dir.iterdir())" over the entries
\* from the k-th on: pdf_files.extend(pdfs_in_dir) for each directory
Collect(t, entries, res) ==
    IF entries = <<>> THEN <<>>
    ELSE Members(t, Head(entries), res) \o Collect(t, Tail(entries), res)

\* the pages PdfWriter takes from one readable member
PagesOf(path) == [k \in 1..PagesPerPdf |-> [path |-> path, page |-> k]]
RECURSIVE Concat(_)
Concat(pdfs) == IF pdfs = <<>> THEN <<>> ELSE PagesOf(Head(pdfs)) \o Concat(Tail(pdfs))
\* faulty variant: the members behind one that raises are not appended
Appended_AbortOnFailure(t, pdf_files) ==
    SelectSeq(pdf_files, LAMBDA f : \A k \in DOMAIN pdf_files :
                                       t[pdf_files[k]] # "pdf" => \E j \in 1..(k - 1) : pdf_files[j] = f)
\* the members merger.append took: each one in turn inside its own
\* try/except, so one that raises is left out and the loop goes on
Appended(t, pdf_files) == SelectSeq(pdf_files, LAMBDA f : f \in DOMAIN t /\ t[f] = "pdf")
\* faulty variant: the file is written whatever the writer holds
HasPages_Always(pages) == TRUE
\* if len(merger.pages) > 0
HasPages(pages) == Len(pages) > 0

MergeIdle ==
    /\ tree = <<>>
    /\ merged = [r \in {"Slides", "Notes"} |-> NoMerged]
    /\ res_idx = Len(resource_types) + 1
    /\ rerun = TRUE
    /\ report = <<>>
    /\ first_report = <<>>

\* ------------------------------------------------------ download_resources
\* One resource directory of one class, over the runs of the program that
\* download into it.  A name in it is <counter>.<safe_class_name><ext>; the
\* class name is the same for all of them and is left out.  disk maps each
\* name to the bytes under it, as a sniffed file or as EmptyFile.
MaxLinks == 2
NoContentType == {}
\* the parts of a Content-Type header the loop looks for
ContentTypes == {NoContentType,
                 {"application/vnd.openxmlformats", "word"},
                 {"application/vnd.openxmlformats", "presentation"}}
EmptyFile == [magic |-> "", body |-> <<>>]
Payloads == {[magic |-> "PK\\x03\\x04", body |-> <<"ppt/">>],
             [magic |-> "%PDF", body |-> <<>>],
             [magic |-> "other", body |-> <<>>],
             EmptyFile}
Links == [type : {"direct"}, content_type : {NoContentType}, content : Payloads]
             \cup [type : {"url"}, content_type : ContentTypes, content : Payloads]
NoLink == [type |-> "none", content_type |-> NoContentType, content |-> EmptyFile]
NoOutput == [n |-> 0, ext |-> ""]
\* output_path.stat().st_size
st_size(f) == IF f = EmptyFile THEN 0 ELSE ChunkStart(f.body, Len(f.body) + 1)
\* the extension the loop gives the file before any byte of it is looked at
ClaimedExt(l) ==
    IF l.type = "direct" THEN ".pdf"
    ELSE IF "application/vnd.openxmlformats" \in l.content_type
         THEN IF "presentation" \in l.content_type THEN ".pptx"
              ELSE IF "word" \in l.content_type THEN ".docx"
              ELSE IF "sheet" \in l.content_type THEN ".xlsx"
              ELSE ".pdf"
    ELSE IF "application/vnd.ms-powerpoint" \in l.content_type THEN ".ppt"
    ELSE IF "application/msword" \in l.content_type THEN ".doc"
    ELSE ".pdf"
\* if actual_ext and actual_ext != '.pdf' / if actual_ext and actual_ext != ext
NeedsRename(l, actual) ==
    actual # "None" /\ actual # (IF l.type = "direct" THEN ".pdf" ELSE ClaimedExt(l))
\* Path.rename onto a name that is taken replaces it on POSIX and raises
\* FileExistsError on Windows
RenameOutcomes(d, target) == IF target \in DOMAIN d THEN {"replaced", "raises"} ELSE {"renamed"}
Rename(d, p, target) == WriteFile(Unlink(d, p), target, d[p])
\* base_dir.rglob over "*.docx", "*.pptx", "*.doc", "*.ppt"
OfficeSuffixes == {".docx", ".pptx", ".doc", ".ppt"}
\* Path.suffix without its dot, as the batch's names carry it
Undotted(e) == IF e = ".pptx" THEN "pptx" ELSE IF e = ".ppt" THEN "ppt"
               ELSE IF e = ".docx" THEN "docx" ELSE IF e = ".doc" THEN "doc"
               ELSE IF e = ".xlsx" THEN "xlsx" ELSE "pdf"

DownloadIdle ==
    /\ link = NoLink
    /\ fetched = 0
    /\ dl_pc = "idle"
    /\ disk = <<>>
    /\ saved_path = NoOutput
    /\ actual_ext = "None"
    /\ downloaded_files = <<>>
    /\ unit_file_counter = 1
    /\ sniff_log = <<>>
    /\ dispatched = <<>>

\* ------------------------------------------------------------------ Init
Rank(e) == CHOOSE k \in DOMAIN ExtPatterns : ExtPatterns[k] = e
\* The discovered sources.  The legacy extensions take the same branches as
\* these two (a .ppt is dispatched like a .pptx whose bytes are not a ZIP, a
\* .doc like a .docx), so the batches are drawn from the OOXML names.
DiscoveredExts == {"pptx", "docx"}
SourcePaths == [dir : {0}, pre : {-1}, stem : Stems, ext : DiscoveredExts]
\* office_files.extend(input_folder.rglob(ext)) for each pattern in turn
Discovered(fl) ==
    /\ \A a, b \in DOMAIN fl : a < b =>
          \/ Rank(fl[a].ext) < Rank(fl[b].ext)
          \/ Rank(fl[a].ext) = Rank(fl[b].ext) /\ fl[a].stem < fl[b].stem
\* the bytes a download can have left under each extension: a presentation
\* may be a readable archive or not, which is all attempt_repair looks at
DownloadedBytes(p) == IF p.ext \in PresentationExts THEN {"zip", "junk"} ELSE {"zip"}

Init ==
    /\ COMTYPES_AVAILABLE \in BOOLEAN
    /\ ASPOSE_AVAILABLE \in BOOLEAN
    /\ PPTX_AVAILABLE \in BOOLEAN
    /\ soffice \in BOOLEAN
    /\ \E n \in 0..MaxFiles :
          /\ office_files \in [1..n -> SourcePaths]
          /\ Discovered(office_files)
    /\ fs \in [{office_files[k] : k \in DOMAIN office_files} -> {"zip", "junk"}]
    /\ \A p \in DOMAIN fs : fs[p] \in DownloadedBytes(p)
    /\ source_bytes = fs
    /\ dirs = {}
    /\ next_tmp = 1
    /\ idx = 1
    /\ pc = "loop"
    /\ m = 1
    /\ i = 0
    /\ temp_dir = 0
    /\ repaired_path = NoPath
    /\ result = [success |-> FALSE, method |-> <<"none">>]
    /\ stats = [success |-> 0, repaired |-> 0, failed |-> 0]
    /\ converted_files = <<>>
    /\ failed_files = <<>>
    /\ log = <<>>
    /\ tmp_before = {}
    /\ ledger = <<>>
    /\ ProcessIdle
    /\ OrderIdle
    /\ SnifferIdle
    /\ MergeIdle
    /\ DownloadIdle

\* ------------------------------------------------- convert_office_to_pdf
office_file == office_files[idx]
pdf_file == WithSuffixPdf(office_file)
\* faulty variant: every office file is dispatched to the presentation converter
IsPresentation_Always(p) == p.ext \in PresentationExts \cup WordExts
\* if office_file.suffix.lower() in ['.pptx', '.ppt']
IsPresentation(p) == p.ext \in PresentationExts
\* the methods list of the converter the batch dispatches to
methods == IF IsPresentation(office_file) THEN PptxMethods ELSE DocxMethods

\* a log entry: the function called, on the original or on the repaired copy,
\* what its engine did, what it returned, and whether the path it was to
\* write held a non-empty file when it returned
Call(fn, on, eng, ret, out) == [fn |-> fn, on |-> on, eng |-> eng, ret |-> ret, out |-> out]
\* a backend's entry also keeps what the call did to its application
BackendCall(fn, on, eng, ret, out, steps) ==
    [fn |-> fn, on |-> on, eng |-> eng, ret |-> ret, out |-> out, steps |-> steps]

\* faulty variant: trusts the backend's return value alone
AttemptSucceeded_RetOnly(r, output) == r.ret
\* if method(input, output): if output.exists() and output.stat().st_size > 0
AttemptSucceeded(r, output) == r.ret /\ NonEmptyFile(r.fs, output)
\* faulty variant: trusts the strategy's return value alone
StrategySucceeded_RetOnly(r, output_path) == r.ret
\* if strategy(input_path, output_path): if output_path.exists() and ... > 0
StrategySucceeded(r, output_path) == r.ret /\ NonEmptyFile(r.fs, output_path)
DirectLabel(name) == <<name>>
RepairedLabel(name) == <<name, "(repaired)">>
\* faulty variant: the exhausted converter returns another label
NoneLabel_Error == <<"error">>
\* return False, "none"
NoneLabel == <<"none">>
\* "repaired" in method
MentionsRepaired(label) == \E k \in DOMAIN label : label[k] = "(repaired)"

NoFiles ==
    /\ UNCHANGED beside_conversion
    /\ pc = "loop"
    /\ office_files = <<>>
    /\ pc' = "done"
    /\ UNCHANGED <<host, fs, dirs, next_tmp, office_files, source_bytes, idx, m, i,
                   temp_dir, repaired_path, result, stats, converted_files,
                   failed_files, log, tmp_before, ledger>>

NextFile ==
    /\ UNCHANGED beside_conversion
    /\ pc = "loop"
    /\ idx <= Len(office_files)
    /\ result' = [success |-> FALSE, method |-> <<"none">>]
    /\ m' = 1
    /\ i' = 0
    /\ temp_dir' = 0
    /\ repaired_path' = NoPath
    /\ log' = <<>>
    /\ pc' = "direct"
    /\ UNCHANGED <<host, fs, dirs, next_tmp, office_files, source_bytes, idx, stats,
                   converted_files, failed_files, tmp_before, ledger>>

\* one turn of "for method, method_name in methods" on the original input
DirectAttempt ==
    /\ UNCHANGED beside_conversion
    /\ pc = "direct"
    /\ \E o \in MethodOutcomes(methods[m]) :
          LET name == methods[m]
              r == RunMethod(name, office_file, pdf_file, o, fs)
              steps == HostSteps(name, MethodAvailable(name), o)
          IN  /\ fs' = r.fs
              /\ log' = Append(log, BackendCall(name, "orig", MethodEngine(name, o), r.ret,
                                                NonEmptyFile(r.fs, pdf_file), steps))
              /\ IF AttemptSucceeded(r, pdf_file)
                 THEN /\ result' = [success |-> TRUE, method |-> DirectLabel(name)]
                      /\ pc' = "returned"
                      /\ m' = m
                 ELSE IF m < Len(methods)
                 THEN /\ m' = m + 1
                      /\ UNCHANGED <<result, pc>>
                 ELSE IF IsPresentation(office_file)
                 THEN /\ pc' = "repair"
                      /\ UNCHANGED <<result, m>>
                 ELSE /\ result' = [success |-> FALSE, method |-> NoneLabel]
                      /\ pc' = "returned"
                      /\ m' = m
    /\ UNCHANGED <<host, dirs, next_tmp, office_files, source_bytes, idx, i, temp_dir,
                   repaired_path, stats, converted_files, failed_files, tmp_before, ledger>>

\* attempt_repair up to its loop: temp_dir = Path(tempfile.mkdtemp())
AttemptRepairEnter ==
    /\ UNCHANGED beside_conversion
    /\ pc = "repair"
    /\ temp_dir' = next_tmp
    /\ dirs' = dirs \cup {next_tmp}
    /\ next_tmp' = next_tmp + 1
    /\ i' = 0
    /\ log' = Append(log, Call("attempt_repair", "orig", "called", FALSE, FALSE))
    /\ tmp_before' = dirs
    /\ pc' = "strategy"
    /\ UNCHANGED <<host, fs, office_files, source_bytes, idx, m, repaired_path, result,
                   stats, converted_files, failed_files, ledger>>

\* one turn of "for i, strategy in enumerate(strategies)"
RepairStrategy ==
    /\ UNCHANGED beside_conversion
    /\ pc = "strategy"
    /\ i < Len(strategies)
    /\ \E o \in StrategyOutcomes(strategies[i + 1]) :
          LET name == strategies[i + 1]
              output_path == RepairedName(temp_dir, i, office_file)
              r == RunStrategy(name, office_file, output_path, o, fs)
          IN  /\ fs' = r.fs
              /\ dirs' = IF name = "repair_with_pptx" THEN dirs
                         ELSE ScratchAfter(dirs, next_tmp)
              /\ log' = Append(log, Call(name, "orig",
                                         StrategyEngine(name, office_file, o, fs), r.ret,
                                         NonEmptyFile(r.fs, output_path)))
              /\ IF StrategySucceeded(r, output_path)
                 THEN /\ repaired_path' = output_path
                      /\ m' = 1
                      /\ pc' = "retry"
                      /\ i' = i
                 ELSE /\ i' = i + 1
                      /\ UNCHANGED <<repaired_path, m, pc>>
    /\ UNCHANGED <<host, next_tmp, office_files, source_bytes, idx, temp_dir, result,
                   stats, converted_files, failed_files, tmp_before, ledger>>

\* no strategy succeeded: shutil.rmtree(temp_dir), return None, and
\* convert_pptx_to_pdf falls through to return False, "none"
RepairGiveUp ==
    /\ UNCHANGED beside_conversion
    /\ pc = "strategy"
    /\ i = Len(strategies)
    /\ fs' = RmtreeFiles(fs, temp_dir)
    /\ dirs' = RmtreeDirs(dirs, temp_dir)
    /\ repaired_path' = NoPath
    /\ result' = [success |-> FALSE, method |-> NoneLabel]
    /\ pc' = "returned"
    /\ UNCHANGED <<host, next_tmp, office_files, source_bytes, idx, m, i, temp_dir,
                   stats, converted_files, failed_files, log, tmp_before, ledger>>

\* one turn of "for method, method_name in methods" on the repaired copy,
\* with the try: repaired_path.parent.rmdir() on the way out
RetryAttempt ==
    /\ UNCHANGED beside_conversion
    /\ pc = "retry"
    /\ \E o \in MethodOutcomes(methods[m]) :
          LET name == methods[m]
              r == RunMethod(name, repaired_path, pdf_file, o, fs)
              steps == HostSteps(name, MethodAvailable(name), o)
          IN  /\ fs' = r.fs
              /\ log' = Append(log, BackendCall(name, "copy", MethodEngine(name, o), r.ret,
                                                NonEmptyFile(r.fs, pdf_file), steps))
              /\ IF AttemptSucceeded(r, pdf_file)
                 THEN /\ dirs' = Rmdir(dirs, r.fs, repaired_path.dir)
                      /\ result' = [success |-> TRUE, method |-> RepairedLabel(name)]
                      /\ pc' = "returned"
                      /\ m' = m
                 ELSE IF m < Len(methods)
                 THEN /\ m' = m + 1
                      /\ UNCHANGED <<dirs, result, pc>>
                 ELSE /\ dirs' = Rmdir(dirs, r.fs, repaired_path.dir)
                      /\ result' = [success |-> FALSE, method |-> NoneLabel]
                      /\ pc' = "returned"
                      /\ m' = m
    /\ UNCHANGED <<host, next_tmp, office_files, source_bytes, idx, i, temp_dir,
                   repaired_path, stats, converted_files, failed_files, tmp_before, ledger>>

\* What one finished conversion came to, read off the log of its calls (a
\* history record beside the program's own stats): on which input a backend
\* succeeded ("orig", "copy" or "none"), which strategy supplied the copy, and
\* whether some backend's engine converted the copy.
Backends == {"PowerPoint COM", "Word COM", "Aspose.Slides", "LibreOffice"}
Hit(e) == e.fn \in Backends /\ e.ret /\ e.out
Supplied(e) == e.fn \in {strategies[k] : k \in DOMAIN strategies} /\ e.ret /\ e.out
Entry(p, lg) ==
    [file |-> p,
     on |-> IF \E k \in DOMAIN lg : Hit(lg[k])
            THEN lg[CHOOSE k \in DOMAIN lg : Hit(lg[k])].on
            ELSE "none",
     via |-> IF \E k \in DOMAIN lg : Supplied(lg[k])
             THEN lg[CHOOSE k \in DOMAIN lg : Supplied(lg[k])].fn
             ELSE "none",
     copy_converted |-> \E k \in DOMAIN lg : lg[k].on = "copy" /\ lg[k].eng = "converted"]

\* stats['repaired'] += 1 / stats['success'] += 1 / stats['failed'] += 1
Count(st, res) ==
    IF res.success
    THEN IF MentionsRepaired(res.method)
         THEN [st EXCEPT !.repaired = @ + 1]
         ELSE [st EXCEPT !.success = @ + 1]
    ELSE [st EXCEPT !.failed = @ + 1]
\* faulty variant: the source is unlinked whatever the result
SourceCleanup_Always(f, res, p) == Unlink(f, p)
\* office_file.unlink() in the success branch only
SourceCleanup(f, res, p) == IF res.success THEN Unlink(f, p) ELSE f
\* faulty variant: the failing name is not kept
RecordFailure_Dropped(ff, res, p) == ff
\* failed_files.append(office_file.name)
RecordFailure(ff, res, p) == IF res.success THEN ff ELSE Append(ff, p)
\* converted_files.append(pdf_file)
RecordConverted(cf, res, p) == IF res.success THEN Append(cf, p) ELSE cf

\* the rest of the loop body once the converter has returned
FinishFile ==
    /\ UNCHANGED beside_conversion
    /\ pc = "returned"
    /\ converted_files' = RecordConverted(converted_files, result, pdf_file)
    /\ failed_files' = RecordFailure(failed_files, result, office_file)
    /\ stats' = Count(stats, result)
    /\ fs' = SourceCleanup(fs, result, office_file)
    /\ ledger' = Append(ledger, Entry(office_file, log))
    /\ idx' = idx + 1
    /\ pc' = "loop"
    \* the converter's and the repairer's frames are gone
    /\ m' = 1
    /\ i' = 0
    /\ temp_dir' = 0
    /\ repaired_path' = NoPath
    /\ log' = <<>>
    /\ tmp_before' = {}
    /\ UNCHANGED <<host, dirs, next_tmp, office_files, source_bytes, result>>

\* the loop is over: the summary is printed and converted_files returned
Summary ==
    /\ UNCHANGED beside_conversion
    /\ pc = "loop"
    /\ office_files # <<>>
    /\ idx > Len(office_files)
    /\ pc' = "done"
    /\ UNCHANGED <<host, fs, dirs, next_tmp, office_files, source_bytes, idx, m, i,
                   temp_dir, repaired_path, result, stats, converted_files,
                   failed_files, log, tmp_before, ledger>>

Next ==
    \/ NoFiles
    \/ NextFile
    \/ DirectAttempt
    \/ AttemptRepairEnter
    \/ RepairStrategy
    \/ RepairGiveUp
    \/ RetryAttempt
    \/ FinishFile
    \/ Summary

Spec == Init /\ [][Next]_vars

\* the batch at rest: the summary printed
BatchAtRest ==
    /\ dirs = {}
    /\ next_tmp = 1
    /\ idx = 1
    /\ pc = "done"
    /\ m = 1
    /\ i = 0
    /\ temp_dir = 0
    /\ repaired_path = NoPath
    /\ result = [success |-> FALSE, method |-> <<"none">>]
    /\ stats = [success |-> 0, repaired |-> 0, failed |-> 0]
    /\ converted_files = <<>>
    /\ failed_files = <<>>
    /\ log = <<>>
    /\ tmp_before = {}
    /\ ledger = <<>>
\* no backend installed, nothing discovered
ConversionIdle ==
    /\ COMTYPES_AVAILABLE = FALSE
    /\ ASPOSE_AVAILABLE = FALSE
    /\ PPTX_AVAILABLE = FALSE
    /\ soffice = FALSE
    /\ office_files = <<>>
    /\ fs = <<>>
    /\ source_bytes = <<>>
    /\ BatchAtRest

\* ------------------------------------------- one backend call on the host
\* one office file, any backends installed, any of their applications
\* already running
ProcessInit ==
    /\ COMTYPES_AVAILABLE \in BOOLEAN
    /\ ASPOSE_AVAILABLE \in BOOLEAN
    /\ PPTX_AVAILABLE = FALSE
    /\ soffice \in BOOLEAN
    /\ \E p \in SourcePaths : office_files = <<p>>
    /\ fs \in [{office_files[1]} -> {"zip", "junk"}]
    /\ \A p \in DOMAIN fs : fs[p] \in DownloadedBytes(p)
    /\ source_bytes = fs
    /\ BatchAtRest
    /\ running \in SUBSET Processes
    /\ last_call = NoCall
    /\ OrderIdle
    /\ SnifferIdle
    /\ MergeIdle
    /\ DownloadIdle

\* method(input_path, output_path) for one method of the file's converter
CallBackend ==
    /\ \E k \in DOMAIN methods : \E o \in MethodOutcomes(methods[k]) :
          LET name == methods[k]
              r == RunMethod(name, office_file, pdf_file, o, fs)
              steps == HostSteps(name, MethodAvailable(name), o)
              after == ApplySteps(steps, BackendProcess(name), running)
          IN  /\ fs' = r.fs
              /\ running' = after
              /\ last_call' = [fn |-> name, eng |-> MethodEngine(name, o), steps |-> steps,
                               stale |-> BackendProcess(name) \in running,
                               left |-> BackendProcess(name) \in after]
    /\ UNCHANGED <<host, dirs, next_tmp, office_files, source_bytes, idx, pc, m, i, temp_dir,
                   repaired_path, result, stats, converted_files, failed_files, log,
                   tmp_before, ledger, order_vars, sniffer_vars, merge_vars,
                   download_vars>>

ProcessNext == CallBackend
ProcessSpec == ProcessInit /\ [][ProcessNext]_vars

\* ---------------------------------------------------- merging one unit
MergeInit ==
    /\ ConversionIdle
    /\ ProcessIdle
    /\ OrderIdle
    /\ SnifferIdle
    /\ \E on_disk \in SUBSET PdfPaths :
          /\ Cardinality(on_disk) <= MaxMembers
          /\ tree \in [on_disk -> {"pdf", "corrupt"}]
    /\ merged = [r \in {"Slides", "Notes"} |-> NoMerged]
    /\ res_idx = 1
    /\ rerun = FALSE
    /\ report = <<>>
    /\ first_report = <<>>
    /\ DownloadIdle

\* one turn of "for res_id in resource_types" for the unit
MergeGroup ==
    /\ res_idx <= Len(resource_types)
    /\ LET resource_name == RESOURCE_TYPES[resource_types[res_idx]]
           pdf_files == Collect(tree, UnitEntries(merged), resource_name)
           appended == Appended(tree, pdf_files)
           pages == Concat(appended)
           Entry0(outcome, after) ==
               [res |-> resource_name, pdf_files |-> pdf_files, appended |-> appended,
                outcome |-> outcome, before |-> merged[resource_name], after |-> after]
       IN  IF pdf_files = <<>>
           THEN /\ report' = Append(report, Entry0("silent", merged[resource_name]))
                /\ UNCHANGED merged
           ELSE IF ~HasPages(pages)
           THEN /\ report' = Append(report, Entry0("No valid PDFs to merge",
                                                   merged[resource_name]))
                /\ UNCHANGED merged
           ELSE \/ /\ merged' = [merged EXCEPT ![resource_name] =
                                     [exists |-> TRUE, pages |-> pages]]
                   /\ report' = Append(report, Entry0("Created", merged'[resource_name]))
                \/ \* open(output_file, "wb") raises: the outer except
                   /\ report' = Append(report, Entry0("Merge failed", merged[resource_name]))
                   /\ UNCHANGED merged
    /\ res_idx' = res_idx + 1
    /\ UNCHANGED <<tree, rerun, first_report, conversion_vars, process_vars, order_vars,
                   sniffer_vars, download_vars>>

\* between two runs of the program one PDF under the unit is deleted,
\* arrives (a download, a conversion) or is replaced by other bytes
TreeChanges ==
    /\ res_idx = Len(resource_types) + 1
    /\ ~rerun
    /\ \/ \E f \in DOMAIN tree :
             tree' = [g \in DOMAIN tree \ {f} |-> tree[g]]
       \/ \E f \in PdfPaths, c \in {"pdf", "corrupt"} :
             /\ f \in DOMAIN tree => tree[f] # c
             /\ f \notin DOMAIN tree => Cardinality(DOMAIN tree) < MaxMembers
             /\ tree' = [g \in DOMAIN tree \cup {f} |-> IF g = f THEN c ELSE tree[g]]
    /\ rerun' = TRUE
    /\ res_idx' = 1
    /\ report' = <<>>
    /\ first_report' = <<>>
    /\ UNCHANGED <<merged, conversion_vars, process_vars, order_vars, sniffer_vars,
                   download_vars>>

\* the program is run again and nothing under the unit has changed
RunAgain ==
    /\ res_idx = Len(resource_types) + 1
    /\ ~rerun
    /\ rerun' = TRUE
    /\ res_idx' = 1
    /\ first_report' = report
    /\ report' = <<>>
    /\ UNCHANGED <<tree, merged, conversion_vars, process_vars, order_vars, sniffer_vars,
                   download_vars>>

MergeNext == MergeGroup \/ TreeChanges \/ RunAgain
MergeSpec == MergeInit /\ [][MergeNext]_vars

\* ------------------------------------------------- sniffing one download
SnifferInit ==
    /\ ConversionIdle
    /\ ProcessIdle
    /\ OrderIdle
    /\ MergeIdle
    /\ DownloadIdle
    /\ file_path \in Files
    /\ detected = Pending
    /\ earlier = [file |-> NoFile, call |-> Pending]

\* detected_ext = self.detect_file_type(filepath)
DetectFileType ==
    /\ detected = Pending
    /\ \E o \in ReadOutcomes :
          /\ o = "second_open_raises" => file_path.magic = "PK\\x03\\x04"
          /\ detected' = [how |-> o, ret |-> detect_file_type(file_path, o)]
    /\ UNCHANGED <<file_path, earlier, conversion_vars, process_vars, order_vars, merge_vars,
                   download_vars>>

\* another file that is this one with more bytes behind it, sniffed in turn
AppendBytes ==
    /\ detected # Pending
    /\ earlier.file = NoFile
    /\ \E c \in Chunks : file_path' = [file_path EXCEPT !.body = Append(@, c)]
    /\ earlier' = [file |-> file_path, call |-> detected]
    /\ detected' = Pending
    /\ UNCHANGED <<conversion_vars, process_vars, order_vars, merge_vars, download_vars>>

SnifferNext == DetectFileType \/ AppendBytes
SnifferSpec == SnifferInit /\ [][SnifferNext]_vars

\* ---------------------------------------------- sorting one directory listing
\* two files of a resource directory, in the order glob yields them
OrderInit ==
    /\ ConversionIdle
    /\ ProcessIdle
    /\ SnifferIdle
    /\ MergeIdle
    /\ DownloadIdle
    /\ \E a, b \in FileNames : globbed = <<a, b>>
    /\ pdfs_in_dir = <<>>
    /\ sort_state = "pending"

\* pdfs_in_dir = sorted(resource_dir.glob("*.pdf"), key=natural_sort_key)
SortListing ==
    /\ sort_state = "pending"
    /\ IF \E k \in DOMAIN globbed : KeyRaises(globbed[k])
       THEN /\ sort_state' = "ValueError"
            /\ UNCHANGED pdfs_in_dir
       ELSE /\ sort_state' = "done"
            /\ pdfs_in_dir' = Sorted(globbed)
    /\ UNCHANGED <<globbed, conversion_vars, process_vars, sniffer_vars, merge_vars,
                   download_vars>>

OrderNext == SortListing
OrderSpec == OrderInit /\ [][OrderNext]_vars

\* ------------------------------------- downloading into one resource dir
DownloadInit ==
    /\ ConversionIdle
    /\ ProcessIdle
    /\ OrderIdle
    /\ SnifferIdle
    /\ MergeIdle
    /\ link = NoLink
    /\ fetched = 0
    /\ dl_pc = "links"
    /\ disk = <<>>
    /\ saved_path = NoOutput
    /\ actual_ext = "None"
    /\ downloaded_files = <<>>
    /\ unit_file_counter = 1
    /\ sniff_log = <<>>
    /\ dispatched = <<>>

beside_download == <<conversion_vars, process_vars, order_vars, sniffer_vars, merge_vars>>

\* for link in links: the file is written under its claimed name; an empty
\* one ends the turn, left on disk by the direct branch and unlinked by the other
SaveLink ==
    /\ dl_pc = "links"
    /\ fetched < MaxLinks
    /\ \E l \in Links :
          LET path == [n |-> unit_file_counter, ext |-> ClaimedExt(l)]
              written == WriteFile(disk, path, l.content)
          IN  /\ link' = l
              /\ saved_path' = path
              /\ sniff_log' = Unlink(sniff_log, path)
              /\ IF st_size(l.content) > 0
                 THEN /\ disk' = written
                      /\ dl_pc' = "sniff"
                 ELSE /\ disk' = IF l.type = "direct" THEN written ELSE Unlink(written, path)
                      /\ dl_pc' = "links"
    /\ fetched' = fetched + 1
    /\ UNCHANGED <<actual_ext, downloaded_files, unit_file_counter, dispatched, beside_download>>

\* actual_ext = self.detect_file_type(output_path) and the rename that
\* follows it; a rename that raises leaves download_resources and ends the run
SniffRename ==
    /\ dl_pc = "sniff"
    /\ \E o \in ReadOutcomes :
          /\ o = "second_open_raises" => disk[saved_path].magic = "PK\\x03\\x04"
          /\ LET actual == detect_file_type(disk[saved_path], o)
                 new_path == [saved_path EXCEPT !.ext = actual]
                 entry == [claimed |-> ClaimedExt(link), actual |-> actual]
             IN  /\ actual_ext' = actual
                 /\ IF NeedsRename(link, actual)
                    THEN \E r \in RenameOutcomes(disk, new_path) :
                            IF r = "raises"
                            THEN /\ disk' = disk
                                 /\ saved_path' = saved_path
                                 /\ sniff_log' = WriteFile(sniff_log, saved_path, entry)
                                 /\ dl_pc' = "raised"
                            ELSE /\ disk' = Rename(disk, saved_path, new_path)
                                 /\ saved_path' = new_path
                                 /\ sniff_log' = WriteFile(Unlink(sniff_log, saved_path),
                                                           new_path, entry)
                                 /\ dl_pc' = "record"
                    ELSE /\ disk' = disk
                         /\ saved_path' = saved_path
                         /\ sniff_log' = WriteFile(sniff_log, saved_path, entry)
                         /\ dl_pc' = "record"
    /\ UNCHANGED <<link, fetched, downloaded_files, unit_file_counter, dispatched,
                   beside_download>>

\* self.downloaded_files.append(output_path); unit_file_counter += 1
Record ==
    /\ dl_pc = "record"
    /\ downloaded_files' = Append(downloaded_files, saved_path)
    /\ unit_file_counter' = unit_file_counter + 1
    /\ dl_pc' = "links"
    /\ UNCHANGED <<link, fetched, disk, saved_path, actual_ext, sniff_log, dispatched,
                   beside_download>>

ConvertedPdf == [magic |-> "%PDF", body |-> <<>>]
RECURSIVE Converted(_, _)
\* the disk after every file of the set was converted and its source unlinked
Converted(d, sources) ==
    IF sources = {} THEN d
    ELSE LET p == CHOOSE q \in sources : TRUE
         IN  Converted(WriteFile(Unlink(d, p), [p EXCEPT !.ext = ".pdf"], ConvertedPdf),
                       sources \ {p})

\* download_resources has returned: main looks for office files under
\* base_dir and, if the answer is y, convert_office_to_pdf hands each to the
\* converter of its extension; either all of them convert or none does
Dispatch ==
    /\ dl_pc = "links"
    /\ \E convert_choice \in {"y", "n"}, success \in BOOLEAN :
          LET found == {p \in DOMAIN disk : p.ext \in OfficeSuffixes}
          IN  IF found # {} /\ convert_choice = "y"
              THEN /\ dispatched' = [p \in found |->
                                        IF IsPresentation([ext |-> Undotted(p.ext)])
                                        THEN "convert_pptx_to_pdf" ELSE "convert_docx_to_pdf"]
                   /\ disk' = IF success THEN Converted(disk, found) ELSE disk
              ELSE /\ dispatched' = <<>>
                   /\ disk' = disk
    /\ dl_pc' = "ended"
    /\ UNCHANGED <<link, fetched, saved_path, actual_ext, downloaded_files,
                   unit_file_counter, sniff_log, beside_download>>

\* the program is started again on the same downloads directory
NewRun ==
    /\ dl_pc \in {"ended", "raised"}
    /\ link' = NoLink
    /\ dl_pc' = "links"
    /\ saved_path' = NoOutput
    /\ actual_ext' = "None"
    /\ downloaded_files' = <<>>
    /\ unit_file_counter' = 1
    /\ dispatched' = <<>>
    /\ UNCHANGED <<fetched, disk, sniff_log, beside_download>>

DownloadNext == SaveLink \/ SniffRename \/ Record \/ Dispatch \/ NewRun
DownloadSpec == DownloadInit /\ [][DownloadNext]_vars

\* ------------------------------------------------------------ properties
\* the converter is running or has just returned for office_files[idx]
InCall == pc \in {"direct", "repair", "strategy", "retry", "returned"}
RepairCalled == \E k \in DOMAIN log : log[k].fn = "attempt_repair"
PresentationCascade == <<"PowerPoint COM", "Aspose.Slides", "LibreOffice">>
WordCascade == <<"Word COM", "LibreOffice">>
ExpectedCascade == IF office_file.ext \in {"pptx", "ppt"} THEN PresentationCascade
                   ELSE WordCascade
ExpectedStrategies == <<"repair_with_pptx", "repair_by_rezip", "repair_xml_relationships">>
TypeOK ==
    /\ pc \in {"loop", "direct", "repair", "strategy", "retry", "returned", "done"}
    /\ stats.success + stats.repaired + stats.failed <= MaxFiles

\* C1: when convert_pptx_to_pdf returns for a presentation whose direct
\* attempts all failed, for which attempt_repair yielded a copy, and whose
\* copy some backend's engine converted, the result is
\* (True, "<backend> (repaired)") and a non-empty PDF is at the output path.
C1_RepairedCopyConverts ==
    (/\ pc = "returned"
     /\ office_file.ext \in {"pptx", "ppt"}
     /\ repaired_path # NoPath
     /\ \E k \in DOMAIN log : log[k].on = "copy" /\ log[k].eng = "converted")
    => /\ result.success
       /\ \E k \in DOMAIN PresentationCascade :
             result.method = <<PresentationCascade[k], "(repaired)">>
       /\ NonEmptyFile(fs, pdf_file)

\* C2: when convert_pptx_to_pdf returns after attempt_repair gave it a
\* copy, the scratch directory of the copy is gone with all it held, and no
\* directory made for the repair is left: the directories are those that
\* existed before the repair.
C2_ScratchRemovedOnReturn ==
    (pc = "returned" /\ repaired_path # NoPath)
    => /\ repaired_path.dir \notin dirs
       /\ \A p \in DOMAIN fs : p.dir # repaired_path.dir
       /\ dirs = tmp_before

\* the calls of the direct tier and of the repair engine, as logged
DirectCalls == SelectSeq(log, LAMBDA e : e.fn \in Backends /\ e.on = "orig")
StrategyCalls == SelectSeq(log, LAMBDA e : e.fn \in
                    {"repair_with_pptx", "repair_by_rezip", "repair_xml_relationships"})

\* C3: in the direct tier the backends are called in cascade order
\* (PowerPoint COM, Aspose.Slides, LibreOffice; Word COM, LibreOffice); the
\* first backend that returns True with a non-empty output file ends the call
\* with (True, its label), nothing is called after it, a backend that raised
\* or timed out counts as failed, and a direct label is only ever returned for
\* such a backend.
C3_DirectCascadeFirstSuccess ==
    InCall =>
       /\ Len(DirectCalls) <= Len(ExpectedCascade)
       /\ \A k \in DOMAIN DirectCalls :
             /\ log[k] = DirectCalls[k]
             /\ DirectCalls[k].fn = ExpectedCascade[k]
             /\ DirectCalls[k].eng \in {"raises", "quit_raises", "timeout", "unavailable"}
                   => ~DirectCalls[k].ret
             /\ (DirectCalls[k].ret /\ DirectCalls[k].out)
                   => /\ k = Len(log)
                      /\ pc = "returned"
                      /\ result = [success |-> TRUE, method |-> <<ExpectedCascade[k]>>]
       /\ (pc = "returned" /\ result.success /\ Len(result.method) = 1)
             => /\ log # <<>>
                /\ log[Len(log)].on = "orig"
                /\ log[Len(log)].ret /\ log[Len(log)].out
                /\ result.method = <<log[Len(log)].fn>>

\* a later backend succeeded after an earlier one returned True over an
\* empty file
C3_Witness ==
    /\ pc = "returned"
    /\ result = [success |-> TRUE, method |-> <<"LibreOffice">>]
    /\ Len(log) = 3
    /\ log[2].ret /\ ~log[2].out

\* C4: within one convert_pptx_to_pdf call attempt_repair is called at most
\* once, and only as the fourth call, after PowerPoint COM, Aspose.Slides and
\* LibreOffice were each tried on the original and none succeeded.
C4_RepairOnceAfterFullCascade ==
    InCall =>
       /\ Cardinality({k \in DOMAIN log : log[k].fn = "attempt_repair"}) <= 1
       /\ \A k \in DOMAIN log : log[k].fn = "attempt_repair" =>
             /\ office_file.ext \in {"pptx", "ppt"}
             /\ k = 4
             /\ \A j \in 1..3 : /\ log[j].fn = PresentationCascade[j]
                                /\ log[j].on = "orig"
                                /\ ~(log[j].ret /\ log[j].out)
       /\ (pc \in {"repair", "strategy", "retry"} \/ repaired_path # NoPath)
             => Len(DirectCalls) = 3

\* the repair was called and the cascade has run again on its copy
C4_Witness ==
    /\ pc = "returned"
    /\ RepairCalled
    /\ \E k \in DOMAIN log : log[k].on = "copy" /\ log[k].fn = "LibreOffice"

\* C5: when the converter returns and no backend call, on the original or on
\* a repaired copy, returned True with a non-empty output, the whole cascade
\* was tried and the result is (False, "none"), with or without a copy.
C5_ExhaustedReturnsNone ==
    (pc = "returned" /\ \A k \in DOMAIN log : ~Hit(log[k]))
    => /\ result = [success |-> FALSE, method |-> <<"none">>]
       /\ Len(DirectCalls) = Len(ExpectedCascade)
       /\ repaired_path # NoPath =>
             Len(SelectSeq(log, LAMBDA e : e.on = "copy")) = Len(ExpectedCascade)

\* every backend failed on the original and on the repaired copy
C5_Witness ==
    /\ pc = "returned"
    /\ repaired_path # NoPath
    /\ result = [success |-> FALSE, method |-> <<"none">>]
    /\ \E k \in DOMAIN log : log[k].on = "copy" /\ log[k].eng = "raises"

\* C6: attempt_repair never returns a copy of an input that is not a valid
\* ZIP, and when it returns None its scratch directory is gone with every
\* file in it: the temporary directories are those that existed before.
C6_RepairNoneLeavesNoScratch ==
    (InCall /\ RepairCalled) =>
       /\ (source_bytes[office_file] # "zip" /\ pc \in {"retry", "returned"})
             => repaired_path = NoPath
       /\ (pc = "returned" /\ repaired_path = NoPath)
             => /\ dirs = tmp_before
                /\ temp_dir \notin dirs
                /\ \A p \in DOMAIN fs : p.dir # temp_dir

\* attempt_repair has returned None for an input that is not a ZIP
C6_Witness ==
    /\ pc = "returned"
    /\ RepairCalled
    /\ repaired_path = NoPath
    /\ source_bytes[office_file] = "junk"
    /\ Len(StrategyCalls) = 3

\* C7: the strategies run in the order repair_with_pptx, repair_by_rezip,
\* repair_xml_relationships; the first that returns True with a non-empty
\* output ends attempt_repair, which returns that output; a strategy whose
\* output is missing or empty is passed over; None is returned only after
\* all three.
C7_StrategiesInOrderFirstSuccess ==
    (InCall /\ RepairCalled) =>
       /\ Len(StrategyCalls) <= 3
       /\ \A k \in DOMAIN StrategyCalls :
             /\ log[4 + k] = StrategyCalls[k]
             /\ StrategyCalls[k].fn = ExpectedStrategies[k]
             /\ (StrategyCalls[k].ret /\ StrategyCalls[k].out)
                   => /\ k = Len(StrategyCalls)
                      /\ repaired_path = [dir |-> temp_dir, pre |-> k - 1,
                                          stem |-> office_file.stem,
                                          ext |-> office_file.ext]
                      /\ pc \in {"retry", "returned"}
       /\ repaired_path # NoPath
             => /\ StrategyCalls # <<>>
                /\ StrategyCalls[Len(StrategyCalls)].ret
                /\ StrategyCalls[Len(StrategyCalls)].out
                /\ NonEmptyFile(fs, repaired_path)
       /\ (pc \in {"retry", "returned"} /\ repaired_path = NoPath)
             => Len(StrategyCalls) = 3

\* repair_with_pptx returned True over an empty file and was passed over,
\* repair_by_rezip supplied the copy
C7_Witness ==
    /\ pc = "retry"
    /\ Len(StrategyCalls) = 2
    /\ StrategyCalls[1].ret /\ ~StrategyCalls[1].out
    /\ repaired_path.pre = 1

\* C8: a source is missing from disk only if its own conversion succeeded,
\* and right after the loop body removed it a non-empty PDF is at its base
\* name with extension pdf; every source whose conversion failed is on disk
\* with its original bytes, up to and at the return of the batch.
C8_SourceDeletedOnlyOnSuccess ==
    /\ \A k \in DOMAIN office_files :
          /\ office_files[k] \notin DOMAIN fs
                => k <= Len(ledger) /\ ledger[k].on # "none"
          /\ (k <= Len(ledger) /\ ledger[k].on = "none")
                => /\ office_files[k] \in DOMAIN fs
                   /\ fs[office_files[k]] = source_bytes[office_files[k]]
          /\ k > Len(ledger)
                => /\ office_files[k] \in DOMAIN fs
                   /\ fs[office_files[k]] = source_bytes[office_files[k]]
    /\ (pc \in {"loop", "done"} /\ ledger # <<>>
          /\ office_files[Len(ledger)] \notin DOMAIN fs)
          => NonEmptyFile(fs, [office_files[Len(ledger)] EXCEPT !.ext = "pdf"])

\* the batch has returned with one source converted and deleted and one
\* source failed and kept
C8_Witness ==
    /\ pc = "done"
    /\ Len(office_files) = 2
    /\ office_files[1] \notin DOMAIN fs
    /\ office_files[2] \in DOMAIN fs
    /\ ledger[2].on = "none"

\* C9: the files are visited one at a time in discovery order, each once;
\* every file whose conversion failed is in failed_files, in order, and the
\* loop goes on after it; the batch is never stuck before its end, and at its
\* end every discovered file has been visited and counted.
C9_EveryFileVisitedOnce ==
    /\ Len(ledger) = idx - 1
    /\ Len(ledger) <= Len(office_files)
    /\ \A k \in DOMAIN ledger : ledger[k].file = office_files[k]
    /\ LET failing == SelectSeq(ledger, LAMBDA e : e.on = "none")
       IN  failed_files = [k \in DOMAIN failing |-> failing[k].file]
    /\ Len(converted_files) + Len(failed_files) = Len(ledger)
    /\ stats.success + stats.repaired + stats.failed = Len(ledger)
    /\ pc = "done" => Len(ledger) = Len(office_files)
    /\ pc # "done" => ENABLED Next

\* the first file failed and the batch still visited the second
C9_Witness ==
    /\ pc = "done"
    /\ Len(office_files) = 2
    /\ failed_files # <<>>
    /\ failed_files[1] = office_files[1]
    /\ Len(ledger) = 2

\* C10: a batch over one presentation that converts directly and one that is
\* corrupt but repaired by repair_by_rezip into a copy a backend's engine
\* converts ends with succeeded=1, repaired=1, failed=0 and both sources
\* deleted; and the counters count, file by file, successes on the repaired
\* copy, successes on the original, and failures.
C10_StatsOfRepairedBatch ==
    pc = "done" =>
       /\ stats.repaired = Len(SelectSeq(ledger, LAMBDA e : e.on = "copy"))
       /\ stats.success = Len(SelectSeq(ledger, LAMBDA e : e.on = "orig"))
       /\ stats.failed = Len(SelectSeq(ledger, LAMBDA e : e.on = "none"))
       /\ (/\ Len(office_files) = 2
           /\ \A k \in 1..2 : office_files[k].ext = "pptx"
           /\ \E a, b \in 1..2 :
                 /\ ledger[a].on = "orig"
                 /\ ledger[b].on # "orig"
                 /\ ledger[b].via = "repair_by_rezip"
                 /\ ledger[b].copy_converted)
          => /\ stats = [success |-> 1, repaired |-> 1, failed |-> 0]
             /\ \A k \in 1..2 : office_files[k] \notin DOMAIN fs

\* C18: every call of PowerPoint COM, Word COM or LibreOffice that drives
\* its application first terminates an instance of it that was already
\* running, and leaves no instance of it running when it returns, whatever
\* the exit path.
C18_NoBackendProcessLeft ==
    (last_call.fn \in {"PowerPoint COM", "Word COM", "LibreOffice"} /\ last_call.steps # <<>>)
    => /\ last_call.stale => Head(last_call.steps) = "kill"
       /\ ~last_call.left

\* C19: a LibreOffice call whose process ran into the timeout returns False,
\* the taskkill of its finally is the last thing it does, and the conversion
\* goes on: on the original of a presentation attempt_repair is called next,
\* otherwise the call returns (False, "none").
C19_TimeoutIsPlainFailure ==
    \A k \in DOMAIN log :
        (log[k].fn = "LibreOffice" /\ log[k].eng = "timeout")
        => /\ ~log[k].ret
           /\ log[k].steps[Len(log[k].steps)] = "kill"
           /\ IF log[k].on = "orig" /\ IsPresentation(office_file)
              THEN IF k = Len(log) THEN pc = "repair"
                   ELSE log[k + 1].fn = "attempt_repair"
              ELSE /\ k = Len(log)
                   /\ pc = "returned"
                   /\ result = [success |-> FALSE, method |-> <<"none">>]
C19_Witness ==
    /\ pc = "returned"
    /\ result = [success |-> FALSE, method |-> <<"none">>]
    /\ log[Len(log)].fn = "LibreOffice"
    /\ log[Len(log)].eng = "timeout"

\* C20 as stated: a word-processing input on which Word COM and LibreOffice
\* both failed has had attempt_repair called once when its conversion returns.
C20_WordCascadeRepairs ==
    (pc = "returned" /\ office_file.ext \in WordExts /\ ~result.success)
    => Len(SelectSeq(log, LAMBDA e : e.fn = "attempt_repair")) = 1
\* C20 amended: for a word-processing input attempt_repair is never called
\* and no backend runs on a copy; when Word COM and LibreOffice have both
\* failed the call returns (False, "none") after these two calls alone.
C20_WordCascadeHasNoRepairTier ==
    (InCall /\ office_file.ext \in WordExts)
    => /\ ~RepairCalled
       /\ \A k \in DOMAIN log : log[k].on = "orig"
       /\ (pc = "returned" /\ ~result.success)
          => /\ result.method = <<"none">>
             /\ Len(log) = 2
             /\ \A k \in 1..2 : log[k].fn = WordCascade[k] /\ ~(log[k].ret /\ log[k].out)
C20_Witness ==
    /\ pc = "returned"
    /\ office_file.ext \in WordExts
    /\ ~result.success
    /\ Len(log) = 2
    /\ log[1].eng = "raises"
    /\ log[2].eng = "failed"

\* the leading digit run of a name, its number, and what follows the run
LeadingRun(name) == TakeRun(name, TRUE)
AfterLeadingRun(name) == DropRun(name, TRUE)
DifferOnlyInLeadingRun(a, b) ==
    /\ LeadingRun(a) # <<>>
    /\ LeadingRun(b) # <<>>
    /\ AfterLeadingRun(a) = AfterLeadingRun(b)

\* C15: two names that differ only in their leading digit run are sorted by
\* natural_sort_key in the numeric order of the runs: the sort returns, and
\* the name with the smaller number comes first whatever the order in which
\* the names were met; names that differ only in letter case have one key
\* and stay in the order met.
C15_NumericOrderOfLeadingRuns ==
    (sort_state # "pending" /\ Len(globbed) = 2)
    => /\ DifferOnlyInLeadingRun(globbed[1], globbed[2])
          => /\ sort_state = "done"
             /\ int(LeadingRun(pdfs_in_dir[1])) <= int(LeadingRun(pdfs_in_dir[2]))
       /\ (lower(globbed[1]) = lower(globbed[2]) /\ sort_state = "done")
          => pdfs_in_dir = globbed

\* Where the key is defined the order is the numeric one: of two names that
\* differ only in their leading digit run, the smaller number is first, and
\* names that differ only in letter case stay in the order met.
NumericOrderWhereKeyDefined ==
    (sort_state = "done" /\ Len(globbed) = 2)
    => /\ DifferOnlyInLeadingRun(globbed[1], globbed[2])
          => int(LeadingRun(pdfs_in_dir[1])) <= int(LeadingRun(pdfs_in_dir[2]))
       /\ lower(globbed[1]) = lower(globbed[2]) => pdfs_in_dir = globbed
TenAfterTwo ==
    /\ sort_state = "done"
    /\ globbed = <<<<"1", "0", ".pdf">>, <<"2", ".pdf">>>>
    /\ pdfs_in_dir = <<<<"2", ".pdf">>, <<"1", "0", ".pdf">>>>

\* the marker occurs somewhere in the file
BodyHas(f, marker) == \E k \in DOMAIN f.body : f.body[k] = marker

\* C16 as stated, of the files the call could read: a file that begins with
\* the ZIP magic is detected as .pptx when its body contains ppt/, and as
\* .docx when its body contains word/ and not ppt/.
C16_MarkerInBodyDecides ==
    (detected.how = "read" /\ file_path.magic = "PK\\x03\\x04")
    => /\ BodyHas(file_path, "ppt/") => detected.ret = ".pptx"
       /\ (BodyHas(file_path, "word/") /\ ~BodyHas(file_path, "ppt/"))
          => detected.ret = ".docx"
\* C16 amended: a file that could be read and begins with the ZIP magic is
\* detected as .pptx when its first 512 bytes contain ppt/, and as .docx when
\* they contain word/ and neither ppt/ nor "slideshow" in any letter case.
C16_MarkerInWindowDecides ==
    (detected.how = "read" /\ file_path.magic = "PK\\x03\\x04")
    => /\ Found(file_path.body, "ppt/") => detected.ret = ".pptx"
       /\ (/\ Found(file_path.body, "word/")
           /\ ~Found(file_path.body, "ppt/")
           /\ ~FoundLower(file_path.body, "slideshow"))
          => detected.ret = ".docx"
C16_Witness ==
    /\ detected.how = "read"
    /\ file_path.magic = "PK\\x03\\x04"
    /\ Found(file_path.body, "word/")
    /\ BodyHas(file_path, "ppt/")
    /\ ~Found(file_path.body, "ppt/")
    /\ detected.ret = ".docx"

\* the calls made so far, each with the file it was made on
Calls == {c \in {[file |-> file_path, call |-> detected], earlier} :
             c.call.how \in ReadOutcomes}

\* C17: every call returns a value; a call whose open or read failed returns
\* None; a file read that begins with %PDF gives .pdf, with the compound-file
\* magic .ppt, with any other header that is not the ZIP magic None; and two
\* files read that agree in their first 512 bytes get the same result.
C17_FunctionOfLeadingBytes ==
    /\ \A c \in Calls :
          /\ c.call.ret \in {".pptx", ".docx", ".xlsx", ".pdf", ".ppt", "None"}
          /\ c.call.how # "read" => c.call.ret = "None"
          /\ c.call.how = "read" =>
                /\ c.file.magic = "%PDF" => c.call.ret = ".pdf"
                /\ c.file.magic = "\\xd0\\xcf\\x11\\xe0" => c.call.ret = ".ppt"
                /\ c.file.magic = "other" => c.call.ret = "None"
    /\ \A c, d \in Calls :
          (c.call.how = "read" /\ d.call.how = "read" /\ Content(c.file) = Content(d.file))
          => c.call.ret = d.call.ret
C17_Witness ==
    /\ earlier.call.how = "read"
    /\ detected.how = "read"
    /\ Content(earlier.file) = Content(file_path)
    /\ file_path.magic = "PK\\x03\\x04"
    /\ BodyHas(file_path, "word/")
    /\ ~BodyHas(earlier.file, "word/")
    /\ detected.ret = ".pptx"

\* the run over the unit has returned
MergeReturned == res_idx = Len(resource_types) + 1 /\ report # <<>>
\* the files whose pages a merged file holds, in the order of the pages
FilesOf(pages) == [k \in 1..(Len(pages) \div PagesPerPdf) |-> pages[k * PagesPerPdf].path]
\* the readable members of a group that are on disk
ReadableMembers(res) == {f \in DOMAIN tree : f.res = res /\ tree[f] = "pdf"}

\* C11: a merged file written by the run holds the pages of its members in
\* the natural order of their file names taken over the whole group: no
\* member's pages stand before those of a member whose name has a smaller key.
C11_NaturalOrderOverGroup ==
    \A k \in DOMAIN report :
        report[k].outcome = "Created"
        => LET files == FilesOf(report[k].after.pages)
           IN  /\ Len(report[k].after.pages) = PagesPerPdf * Len(report[k].appended)
               /\ \A a, b \in DOMAIN files :
                     a < b => ~KeyLess(natural_sort_key(files[b].name),
                                       natural_sort_key(files[a].name))

\* C12: when the run has returned, a merged file that exists holds exactly
\* the pages of the readable members that are on disk, each once.
C12_NoStalePages ==
    MergeReturned
    => \A r \in DOMAIN merged :
          merged[r].exists
          => /\ {merged[r].pages[k] : k \in DOMAIN merged[r].pages}
                = UNION {{[path |-> f, page |-> n] : n \in 1..PagesPerPdf} :
                            f \in ReadableMembers(r)}
             /\ Len(merged[r].pages) = PagesPerPdf * Cardinality(ReadableMembers(r))

\* C13: in every group the run has gone through, the members appended are
\* the readable candidates, all of them and in the candidates' order, the
\* others being skipped; a group that was written holds the pages of exactly
\* those; and every group before the loop's place has been gone through,
\* whatever happened to members of the groups before it.
C13_UnappendableMemberSkipped ==
    /\ Len(report) = res_idx - 1
    /\ \A k \in DOMAIN report :
          /\ report[k].res = RESOURCE_TYPES[resource_types[k]]
          /\ report[k].appended = SelectSeq(report[k].pdf_files, LAMBDA f : tree[f] = "pdf")
          /\ report[k].outcome = "Created" => report[k].after.pages = Concat(report[k].appended)
          /\ report[k].appended # <<>> => report[k].outcome \in {"Created", "Merge failed"}
C13_Witness ==
    /\ MergeReturned
    /\ report[1].outcome = "Created"
    /\ Len(report[1].pdf_files) = 3
    /\ tree[report[1].pdf_files[2]] = "corrupt"
    /\ report[1].appended = <<report[1].pdf_files[1], report[1].pdf_files[3]>>
    /\ report[2].outcome = "Created"

\* C14: a group that has candidates none of which could be appended ends
\* with the warning "No valid PDFs to merge": the run writes no merged file
\* for it (the file of the group is as it was before) and goes on.
C14_NoPagesNoFile ==
    \A k \in DOMAIN report :
        (report[k].pdf_files # <<>> /\ report[k].appended = <<>>)
        => /\ report[k].outcome = "No valid PDFs to merge"
           /\ report[k].after = report[k].before
           /\ merged[report[k].res] = report[k].before
           /\ res_idx > k
C14_Witness ==
    /\ MergeReturned
    /\ ~rerun
    /\ Len(report[1].pdf_files) = 2
    /\ report[1].appended = <<>>
    /\ ~merged["Slides"].exists
    /\ report[2].outcome = "Created"

\* C21 as stated, of the files the call could read: for a file that begins
\* with the ZIP magic the result follows from the markers in the first 512
\* bytes alone: ppt/ gives .pptx, otherwise word/ gives .docx, otherwise xl/
\* gives .xlsx, and none of the three gives .pptx.
C21_MarkersAloneDecide ==
    (detected.how = "read" /\ file_path.magic = "PK\\x03\\x04")
    => detected.ret = IF Found(file_path.body, "ppt/") THEN ".pptx"
                      ELSE IF Found(file_path.body, "word/") THEN ".docx"
                      ELSE IF Found(file_path.body, "xl/") THEN ".xlsx"
                      ELSE ".pptx"
\* the first 512 bytes hold the marker, or the keyword in some letter case
Hints(f, marker, keyword) ==
    \/ \E k \in DOMAIN f.body : f.body[k] = marker /\ InContent(f.body, k)
    \/ \E k \in DOMAIN f.body :
          /\ InContent(f.body, k)
          /\ f.body[k] \in (IF keyword = "slideshow" THEN {"slideshow", "SlideShow"}
                           ELSE {keyword})
\* C21 amended: for a file that could be read and begins with the ZIP magic
\* the result follows from the markers and the keywords in the first 512
\* bytes: ppt/ or "slideshow" gives .pptx, otherwise word/ or "document"
\* gives .docx, otherwise xl/ or "workbook" gives .xlsx, and none of the six
\* gives .pptx (the keywords in any letter case).
C21_MarkersAndKeywordsDecide ==
    (detected.how = "read" /\ file_path.magic = "PK\\x03\\x04")
    => detected.ret = IF Hints(file_path, "ppt/", "slideshow") THEN ".pptx"
                      ELSE IF Hints(file_path, "word/", "document") THEN ".docx"
                      ELSE IF Hints(file_path, "xl/", "workbook") THEN ".xlsx"
                      ELSE ".pptx"
C21_Witness ==
    /\ detected.how = "read"
    /\ file_path.magic = "PK\\x03\\x04"
    /\ BodyHas(file_path, "xl/")
    /\ ~Found(file_path.body, "xl/")
    /\ \A k \in DOMAIN file_path.body : file_path.body[k] \notin {"ppt/", "word/", "SlideShow"}
    /\ Found(file_path.body, "document")
    /\ detected.ret = ".docx"

\* the extension a sniffed file is to carry: the detected one, or the claimed
\* one where the sniffer returned None
DueExt(p) == IF sniff_log[p].actual = "None" THEN sniff_log[p].claimed ELSE sniff_log[p].actual
\* C22: every non-empty downloaded file carries the extension of its detected
\* kind, or its claimed extension if the kind is unknown, when it is about to
\* be recorded, once it is recorded, and when a conversion dispatches on it.
C22_ExtensionIsDetectedKind ==
    /\ dl_pc = "record" => saved_path.ext = DueExt(saved_path)
    /\ \A k \in DOMAIN downloaded_files : downloaded_files[k].ext = DueExt(downloaded_files[k])
    /\ \A p \in DOMAIN dispatched : p \in DOMAIN sniff_log => p.ext = DueExt(p)
\* what the runs do keep: the order holds for every file a run records
RecordedCarryDetectedKind ==
    /\ dl_pc = "record" => saved_path.ext = DueExt(saved_path)
    /\ \A k \in DOMAIN downloaded_files : downloaded_files[k].ext = DueExt(downloaded_files[k])

\* the files of a directory other than one path, with their bytes
Besides(f, d, out) == [p \in {q \in DOMAIN f : q.dir = d /\ q # out} |-> f[p]]
\* C23: no step of a call of convert_pptx_to_pdf creates, removes or rewrites a
\* file of the output's directory other than the output path itself.
C23_OnlyOutputPathTouched ==
    [][(pc \in {"direct", "repair", "strategy", "retry"} /\ IsPresentation(office_file))
       => Besides(fs', pdf_file.dir, pdf_file) = Besides(fs, pdf_file.dir, pdf_file)]_vars

====
